---------------------------- MODULE Spec2Model ----------------------------
(***************************************************************************)
(* A model of libdmet/lo/ibo.py: the dispatch entry point ibo, the Jacobi  *)
(* localizer ibo_loc with its sweep loop, and the two atom-slice builders  *)
(* MakeAtomIbOffsets and get_offset; and of libdmet/utils/plot_wrapper.py:  *)
(* the decorator plot_stixfont around a plotting function.                 *)
(*                                                                         *)
(* Text (atomic symbols, label indices, the method selector) is a sequence *)
(* of one-character strings, so that stripping, upper-casing, parsing and  *)
(* text comparison are computed character by character as Python does.     *)
(* Floating-point numbers are fixed-point integers in units of 1/SCALE.    *)
(***************************************************************************)
EXTENDS Integers, Sequences, FiniteSets, TLC

VARIABLES
    entry,       \* the function that was called: "ibo", "ibo_loc", ...
    args,        \* its arguments
    pc,          \* the position of the call
    err,         \* the exception that left the call, "none" while there is none
    events,      \* the collaborator calls and log records made so far
    s,           \* the overlap matrix: "None", "given", or the call that made it
    iaos,        \* the reference basis: "None", "given", or the call that made it
    locmethod,   \* the method selector text
    AtomOffsets,
    iAtSl,
    CIb,         \* the sequence of columns: CIb[c + 1][k + 1] is the code's CIb[k, c]
    it, i, j,
    fGrad,
    L,
    Converged,
    bound,       \* the loop-local names that have been assigned
    visited,     \* history: the pairs processed so far in the current sweep
    norms,       \* history: the gradient norm of every completed sweep
    result,
    rcParams,       \* matplotlib's global settings: key -> value
    old_rcParams,   \* the wrapper's _old_rcParams
    kwargs,         \* the wrapper's keyword arguments: name -> value
    rcParamsInput,  \* the wrapper's local of that name
    value,          \* the wrapper's local of that name
    func,           \* the wrapped function: what it writes, whether it raises
    funcCalls,      \* history: the keyword arguments of every call of func
    before          \* history: rcParams when the wrapper was called

plotVars == <<rcParams, old_rcParams, kwargs, rcParamsInput, value, func,
              funcCalls, before>>

vars == <<entry, args, pc, err, events, s, iaos, locmethod, AtomOffsets, iAtSl, CIb,
          it, i, j, fGrad, L, Converged, bound, visited, norms, result, plotVars>>

-----------------------------------------------------------------------------
(* Text *)

Letters ==
    {"A","B","C","D","E","F","G","H","I","J","K","L","M","N","O","P","Q","R",
     "S","T","U","V","W","X","Y","Z",
     "a","b","c","d","e","f","g","h","i","j","k","l","m","n","o","p","q","r",
     "s","t","u","v","w","x","y","z"}

\* str.isalpha of one character
isalpha(char) == char \in Letters

Digits == <<"0","1","2","3","4","5","6","7","8","9">>

DigitVal(char) == (CHOOSE d \in 1..10 : Digits[d] = char) - 1

RECURSIVE DigitsVal(_)
DigitsVal(txt) ==
    IF txt = <<>> THEN 0
    ELSE 10 * DigitsVal(SubSeq(txt, 1, Len(txt) - 1)) + DigitVal(txt[Len(txt)])

\* int(txt) for a decimal literal with an optional sign
int(txt) ==
    IF txt[1] = "-" THEN 0 - DigitsVal(Tail(txt)) ELSE DigitsVal(txt)

\* ''.join(char for char in Atom if char.isalpha())
StripNonAlpha(Atom) == SelectSeq(Atom, isalpha)

-----------------------------------------------------------------------------
(* MakeAtomInfos: the nAoX table.  18/2 and the like are true divisions, so *)
(* the counts of K and of every heavier element are floats.                 *)

nAoXRows ==
    <<
      [At |-> {<<"H">>, <<"H","e">>},
       n |-> 1, float |-> FALSE],
      [At |-> {<<"L","i">>, <<"B","e">>},
       n |-> 2, float |-> FALSE],
      [At |-> {<<"B">>, <<"C">>, <<"O">>, <<"N">>, <<"F">>, <<"N","e">>},
       n |-> 5, float |-> FALSE],
      [At |-> {<<"N","a">>, <<"M","g">>},
       n |-> 3*1 + 1*3, float |-> FALSE],
      [At |-> {<<"A","l">>, <<"S","i">>, <<"P">>, <<"S">>, <<"C","l">>, <<"A","r">>},
       n |-> 3*1 + 2*3, float |-> FALSE],
      [At |-> {<<"K">>, <<"C","a">>},
       n |-> (18 \div 2) + 1, float |-> TRUE],
      [At |-> {<<"S","c">>, <<"T","i">>, <<"V">>, <<"C","r">>, <<"M","n">>, <<"F","e">>, <<"C","o">>, <<"N","i">>, <<"C","u">>, <<"Z","n">>},
       n |-> (18 \div 2) + 1 + 5, float |-> TRUE],
      [At |-> {<<"G","a">>, <<"G","e">>, <<"A","s">>, <<"S","e">>, <<"B","r">>, <<"K","r">>},
       n |-> (18 \div 2) + 1 + 5 + 3, float |-> TRUE],
      [At |-> {<<"R","b">>, <<"S","r">>},
       n |-> (36 \div 2) + 1, float |-> TRUE],
      [At |-> {<<"Y">>, <<"Z","r">>, <<"N","b">>, <<"M","o">>, <<"T","c">>, <<"R","u">>, <<"R","h">>, <<"P","d">>, <<"A","g">>, <<"C","d">>},
       n |-> (36 \div 2) + 1 + 5, float |-> TRUE],
      [At |-> {<<"I","n">>, <<"S","n">>, <<"S","b">>, <<"T","e">>, <<"I">>, <<"X","e">>},
       n |-> ((36 \div 2) + 5) + 1 + 3, float |-> TRUE],
      [At |-> {<<"C","s">>, <<"B","a">>},
       n |-> (54 \div 2) + 1, float |-> TRUE],
      [At |-> {<<"C","e">>, <<"P","r">>, <<"N","d">>, <<"P","m">>, <<"S","m">>, <<"E","u">>, <<"G","d">>, <<"T","b">>, <<"D","y">>, <<"H","o">>, <<"E","r">>, <<"T","m">>, <<"Y","b">>, <<"L","u">>},
       n |-> (54 \div 2) + 1 + 5 + 7, float |-> TRUE],
      [At |-> {<<"L","a">>, <<"H","f">>, <<"T","a">>, <<"W">>, <<"R","e">>, <<"O","s">>, <<"I","r">>, <<"P","t">>, <<"A","u">>, <<"H","g">>},
       n |-> ((54 \div 2) + 7) + 1 + 5, float |-> TRUE],
      [At |-> {<<"T","l">>, <<"P","b">>, <<"B","i">>, <<"P","o">>, <<"A","t">>, <<"R","n">>},
       n |-> ((54 \div 2) + 7 + 5) + 1 + 3, float |-> TRUE],
      [At |-> {<<"F","r">>, <<"R","a">>},
       n |-> (86 \div 2) + 1, float |-> TRUE],
      [At |-> {<<"T","h">>, <<"P","a">>, <<"U">>, <<"N","p">>, <<"P","u">>, <<"A","m">>, <<"C","m">>, <<"B","k">>, <<"C","f">>, <<"E","s">>, <<"F","m">>, <<"M","d">>, <<"N","o">>},
       n |-> (86 \div 2) + 1 + 5 + 7, float |-> TRUE],
      [At |-> {<<"A","c">>, <<"L","r">>, <<"R","f">>, <<"D","b">>, <<"S","g">>, <<"B","h">>, <<"H","s">>, <<"M","t">>, <<"D","s">>, <<"R","g">>, <<"C","n">>},
       n |-> ((86 \div 2) + 7) + 1 + 5, float |-> TRUE],
      [At |-> {<<"N","h">>, <<"F","l">>, <<"M","c">>, <<"L","v">>, <<"T","s">>, <<"O","g">>},
       n |-> ((86 \div 2) + 7 + 5) + 1 + 3, float |-> TRUE]
    >>

KnownAtoms == UNION {nAoXRows[r].At : r \in DOMAIN nAoXRows}

\* nAoX[Atom]: the number with its Python type
nAoX(Atom) ==
    LET r == CHOOSE q \in DOMAIN nAoXRows : Atom \in nAoXRows[q].At
    IN  [v |-> nAoXRows[r].n, float |-> nAoXRows[r].float]

\* Python's int + float
PyAdd(x, y) == [v |-> x.v + y.v, float |-> x.float \/ y.float]

PyInt(n) == [v |-> n, float |-> FALSE]

\* iBfAt[-1] + nAoX[Atom]
NextOffset(iBfAt, Atom) == PyAdd(iBfAt[Len(iBfAt)], nAoX(Atom))

RECURSIVE iBfAtLoop(_, _)
iBfAtLoop(iBfAt, rest) ==
    IF rest = <<>> THEN [err |-> "none", iBfAt |-> iBfAt]
    ELSE LET Atom == StripNonAlpha(Head(rest))
         IN  IF Atom \notin KnownAtoms
             THEN [err |-> "KeyError", iBfAt |-> <<>>]
             ELSE iBfAtLoop(Append(iBfAt, NextOffset(iBfAt, Atom)), Tail(rest))

MakeAtomIbOffsets(atoms) == iBfAtLoop(<<PyInt(0)>>, atoms)

\* [slice(AtomOffsets[A],AtomOffsets[A+1]) for A in range(nAtoms)]
AtomSlices(offsets, nAtoms) ==
    [A \in 1..nAtoms |-> <<offsets[A], offsets[A + 1]>>]

-----------------------------------------------------------------------------
(* get_offset *)

\* Python's str < str on texts of digits and "-" ("-" sorts before the digits)
CharOrd(char) == IF char = "-" THEN 0 - 1 ELSE DigitVal(char)

RECURSIVE StrLess(_, _)
StrLess(a, b) ==
    IF b = <<>> THEN FALSE
    ELSE IF a = <<>> THEN TRUE
    ELSE IF CharOrd(a[1]) # CharOrd(b[1]) THEN CharOrd(a[1]) < CharOrd(b[1])
    ELSE StrLess(Tail(a), Tail(b))

\* a plausible slip: the two index texts compared as text
UnorderedAsText(cur_id, last_id) == StrLess(cur_id, last_id)

\* int(cur_id) < int(last_id)
Unordered(cur_id, last_id) == int(cur_id) < int(last_id)

\* slice(a, b) with integer bounds
Slice(a, b) == <<PyInt(a), PyInt(b)>>

\* The loop of get_offset from Python index idx on.  Leaving the loop with no
\* label seen leaves the loop variable i unassigned, and i + 1 raises.
RECURSIVE get_offset_loop(_, _, _, _, _)
get_offset_loop(labs, idx, offset, last_id, last_i) ==
    IF idx = Len(labs)
    THEN IF idx = 0
         THEN [err |-> "UnboundLocalError", offset |-> <<>>]
         ELSE [err |-> "none",
               offset |-> Append(offset, Slice(last_i, (idx - 1) + 1))]
    ELSE LET lab_sp == labs[idx + 1]
             cur_id == lab_sp[1]
         IN  IF Unordered(cur_id, last_id)
             THEN [err |-> "ValueError", offset |-> <<>>]
             ELSE IF cur_id # last_id
                  THEN get_offset_loop(labs, idx + 1,
                           IF last_i >= 0 THEN Append(offset, Slice(last_i, idx))
                                          ELSE offset,
                           cur_id, idx)
                  ELSE get_offset_loop(labs, idx + 1, offset, last_id, last_i)

get_offset(labs) == get_offset_loop(labs, 0, <<>>, <<"-", "1">>, 0 - 1)

-----------------------------------------------------------------------------
(* Fixed-point arithmetic: the float x is the integer round(x * SCALE).    *)

ScaleExp == 3

RECURSIVE Pow10(_)
Pow10(n) == IF n = 0 THEN 1 ELSE 10 * Pow10(n - 1)

SCALE == Pow10(ScaleExp)

\* n / d rounded to the nearest integer (d > 0)
Rnd(n, d) == (2 * n + d) \div (2 * d)

Mul(x, y) == Rnd(x * y, SCALE)

RECURSIVE Pow(_, _)
Pow(x, n) == IF n = 0 THEN SCALE ELSE Mul(Pow(x, n - 1), x)

RECURSIVE SqrtSearch(_, _, _)
SqrtSearch(n, lo, hi) ==
    IF lo = hi THEN lo
    ELSE LET mid == (lo + hi + 1) \div 2
         IN  IF mid * mid <= n THEN SqrtSearch(n, mid, hi)
                               ELSE SqrtSearch(n, lo, mid - 1)

\* the square root of n >= 0, rounded to the nearest integer
Isqrt(n) ==
    LET r == SqrtSearch(n, 0, 40000)
    IN  IF n - r * r > r THEN r + 1 ELSE r


-----------------------------------------------------------------------------
(* Matrices: a matrix is the sequence of its columns, a column the sequence *)
(* of its entries; row and column numbers are Python's plus one.            *)

\* the rows a slice selects from an array of nRows rows (bounds >= 0; a bound
\* past the end is clipped, as numpy does)
SliceRows(sl, nRows) == {k \in 1..nRows : sl[1].v < k /\ k <= sl[2].v}

RECURSIVE SumProd(_, _, _)
SumProd(u, v, rows) ==
    IF rows = {} THEN 0
    ELSE LET k == CHOOSE r \in rows : TRUE
         IN  u[k] * v[k] + SumProd(u, v, rows \ {k})

\* numpy.dot(CIb[sl, a], CIb[sl, b])
SliceDot(C, sl, a, b) ==
    Rnd(SumProd(C[a + 1], C[b + 1], SliceRows(sl, Len(C[a + 1]))), SCALE)

-----------------------------------------------------------------------------
(* The sweep of ibo_loc *)

swapGradToleranceExp == 12

\* x < swapGradTolerance (1e-12) for x >= 0 given in units of 1/SCALE^2
BelowSwapGradTolerance(x) ==
    IF 2 * ScaleExp <= swapGradToleranceExp
    THEN x = 0
    ELSE x < Pow10(2 * ScaleExp - swapGradToleranceExp)

\* L: the localization functional, lines 168-172
RECURSIVE LSum(_, _, _, _)
LSum(C, slices, p, todo) ==
    IF todo = {} THEN 0
    ELSE LET t == CHOOSE q \in todo : TRUE
         IN  Pow(SliceDot(C, slices[t[1]], t[2], t[2]), p)
             + LSum(C, slices, p, todo \ {t})

Localization(C, slices, p) ==
    LSum(C, slices, p, (1..Len(slices)) \X (0..(Len(C) - 1)))

\* one atom's contribution to Aij and Bij, lines 181-191
AtomAB(C, sl, p, ci, cj) ==
    LET Cii == SliceDot(C, sl, ci, ci)
        Cij == SliceDot(C, sl, ci, cj)
        Cjj == SliceDot(C, sl, cj, cj)
    IN  IF p = 2
        THEN [A |-> 4 * Mul(Cij, Cij) - Mul(Cii - Cjj, Cii - Cjj),
              B |-> 4 * Mul(Cij, Cii - Cjj)]
        ELSE [B |-> 4 * Mul(Cij, Pow(Cii, 3) - Pow(Cjj, 3)),
              A |-> 0 - Pow(Cii, 4) - Pow(Cjj, 4)
                    + 6 * Mul(Pow(Cii, 2) + Pow(Cjj, 2), Pow(Cij, 2))
                    + Mul(Pow(Cii, 3), Cjj) + Mul(Cii, Pow(Cjj, 3))]

\* Aij and Bij summed over the atoms k = 0 .. nAtoms-1, lines 178-191
RECURSIVE PairABLoop(_, _, _, _, _, _, _)
PairABLoop(C, slices, p, ci, cj, k, acc) ==
    IF k > Len(slices) THEN acc
    ELSE LET d == AtomAB(C, slices[k], p, ci, cj)
         IN  PairABLoop(C, slices, p, ci, cj, k + 1,
                        [A |-> acc.A + d.A, B |-> acc.B + d.B])

PairAB(C, slices, p, ci, cj) ==
    PairABLoop(C, slices, p, ci, cj, 1, [A |-> 0, B |-> 0])

\* cos(phi) and sin(phi) for phi = 0.25 * arctan2(y, x), (x, y) # (0, 0).
\* With alpha = arctan2(y, x): cos(alpha) = x / hypot(x, y) and sin(alpha) =
\* y / hypot(x, y).  Two half-angle steps give phi = alpha / 4 in (-pi/4, pi/4]:
\* the cosines are the positive roots of (1 + cos) / 2, the sines are
\* sin / (2 cos) of the half angle, or the root of (1 - cos) / 2 with the sign
\* of y where that cosine is small (arctan2(+0, x < 0) = +pi).
QuarterAngle(y, x) ==
    LET r        == Isqrt(x * x + y * y)
        cosAlpha == Rnd(x * SCALE, r)
        sinAlpha == Rnd(y * SCALE, r)
        cosHalf  == Isqrt(((SCALE + cosAlpha) * SCALE) \div 2)
        rootHalf == Isqrt(((SCALE - cosAlpha) * SCALE) \div 2)
        sinHalf  == IF 2 * cosHalf * cosHalf >= SCALE * SCALE
                    THEN Rnd(sinAlpha * SCALE, 2 * cosHalf)
                    ELSE IF y < 0 THEN 0 - rootHalf ELSE rootHalf
        cs       == Isqrt(((SCALE + cosHalf) * SCALE) \div 2)
    IN  [cs |-> cs, ss |-> Rnd(sinHalf * SCALE, 2 * cs)]

\* a plausible slip: arctan2(Bij, Aij), the sign of Aij lost
CosSinSignLost(Aij, Bij) == QuarterAngle(Bij, Aij)

\* lines 200, 207, 208: phi = 0.25 * arctan2(Bij, -Aij), cs = cos(phi), ss = sin(phi)
CosSin(Aij, Bij) == QuarterAngle(Bij, 0 - Aij)

\* a plausible slip: column j built from the already rotated column i
RotateInPlace(C, ci, cj, cs, ss) ==
    LET Ci   == C[ci + 1]
        Cj   == C[cj + 1]
        newI == [k \in DOMAIN Ci |-> Rnd(cs * Ci[k] + ss * Cj[k], SCALE)]
        newJ == [k \in DOMAIN Ci |-> Rnd((0 - ss) * newI[k] + cs * Cj[k], SCALE)]
    IN  [C EXCEPT ![ci + 1] = newI, ![cj + 1] = newJ]

\* lines 209-212: both columns are copied before either is overwritten
Rotate(C, ci, cj, cs, ss) ==
    LET Ci == C[ci + 1]
        Cj == C[cj + 1]
    IN  [C EXCEPT
           ![ci + 1] = [k \in DOMAIN Ci |-> Rnd(cs * Ci[k] + ss * Cj[k], SCALE)],
           ![cj + 1] = [k \in DOMAIN Ci |-> Rnd((0 - ss) * Ci[k] + cs * Cj[k], SCALE)]]

\* a plausible slip: the inner loop walked downwards
NextPairDescending(ci, cj, n) ==
    IF cj = 0 /\ ci + 1 < n THEN <<ci + 1, ci>>
    ELSE IF cj = 0 THEN <<n, 0>>
    ELSE <<ci, cj - 1>>

\* the pair after (ci, cj) in "for i in range(n): for j in range(i)";
\* <<n, 0>> once the loops are exhausted
NextPair(ci, cj, n) ==
    IF cj + 1 < ci THEN <<ci, cj + 1>>
    ELSE IF ci + 1 < n THEN <<ci + 1, 0>>
    ELSE <<n, 0>>

-----------------------------------------------------------------------------
(* The method selector: locmethod.strip().upper() *)

Lower == <<"a","b","c","d","e","f","g","h","i","j","k","l","m","n","o","p","q",
           "r","s","t","u","v","w","x","y","z">>
Upper == <<"A","B","C","D","E","F","G","H","I","J","K","L","M","N","O","P","Q",
           "R","S","T","U","V","W","X","Y","Z">>

upper1(char) ==
    IF \E n \in 1..26 : Lower[n] = char
    THEN Upper[CHOOSE n \in 1..26 : Lower[n] = char]
    ELSE char

upper(txt) == [n \in DOMAIN txt |-> upper1(txt[n])]

RECURSIVE lstrip(_)
lstrip(txt) ==
    IF txt # <<>> /\ txt[1] = " " THEN lstrip(Tail(txt)) ELSE txt

RECURSIVE rstrip(_)
rstrip(txt) ==
    IF txt # <<>> /\ txt[Len(txt)] = " "
    THEN rstrip(SubSeq(txt, 1, Len(txt) - 1)) ELSE txt

strip(txt) == rstrip(lstrip(txt))

-----------------------------------------------------------------------------
(* Bounds and inputs *)

MaxAtoms == 3
MaxLabels == 3
MaxIter == 3

RECURSIVE SeqsUpTo(_, _)
SeqsUpTo(S, n) ==
    IF n = 0 THEN {<<>>}
    ELSE LET shorter == SeqsUpTo(S, n - 1)
         IN  shorter \cup {Append(q, x) : q \in {r \in shorter : Len(r) = n - 1},
                                          x \in S}

\* atomic symbols as the reference molecule may spell them
RawSymbols ==
    {<<"H">>, <<"H","e">>, <<"L","i">>, <<"C">>, <<"N","a">>, <<"K">>,
     <<"F","e">>, <<"H","1">>, <<"C","1","3">>, <<"X">>}

\* leading atom-index texts of labels
IdTexts == {<<"0">>, <<"1">>, <<"0","1">>, <<"2">>, <<"1","0">>}

Label(id) == <<id, "H", "1s">>

Half == Isqrt((SCALE * SCALE) \div 2)
P6 == (6 * SCALE) \div 10
P8 == (8 * SCALE) \div 10

UnitVecs ==
    {<<SCALE, 0, 0>>, <<0, SCALE, 0>>, <<0, 0, SCALE>>,
     <<Half, Half, 0>>, <<Half, 0 - Half, 0>>,
     <<Half, 0, Half>>, <<Half, 0, 0 - Half>>,
     <<0, Half, Half>>, <<0, Half, 0 - Half>>,
     <<P6, P8, 0>>, <<P8, 0 - P6, 0>>,
     <<0, P6, P8>>, <<0, P8, 0 - P6>>}

Orthogonal(u, v) == SumProd(u, v, DOMAIN u) = 0

\* projections iaos.T . s . orbocc with orthonormal columns: one, two or three
\* occupied orbitals in three reference orbitals
Projs ==
    {<<u>> : u \in UnitVecs}
    \cup {q \in UnitVecs \X UnitVecs : Orthogonal(q[1], q[2])}
    \cup {q \in UnitVecs \X UnitVecs \X UnitVecs :
            Orthogonal(q[1], q[2]) /\ Orthogonal(q[1], q[3]) /\ Orthogonal(q[2], q[3])}

GradTols == {0, 1, 50}

Exponents == {2, 3, 4}

LocMethods ==
    {<<"I","B","O">>, <<"i","b","o">>, <<"P","M">>, <<" ","p","m"," ">>,
     <<"B","o","y","s">>}

\* the arguments that decide ibo_loc's atom slices
SliceInputs ==
    {[iao_mol_given |-> FALSE, labels_given |-> FALSE, Atoms |-> a,
      labels |-> <<>>, molSlices |-> <<>>] :
        a \in {<<<<"H">>, <<"H">>, <<"H","e">>>>, <<<<"H","1">>, <<"L","i">>>>,
               <<<<"L","i">>, <<"H">>>>}}
    \cup {[iao_mol_given |-> TRUE, labels_given |-> FALSE, Atoms |-> <<>>,
           labels |-> <<>>, molSlices |-> <<<<0, 2>>, <<2, 3>>>>]}
    \cup {[iao_mol_given |-> g, labels_given |-> TRUE, Atoms |-> <<>>,
           labels |-> l, molSlices |-> <<>>] :
           g \in BOOLEAN,
           l \in {<<Label(<<"0">>), Label(<<"0">>), Label(<<"1">>)>>,
                  <<Label(<<"0">>), Label(<<"1">>), Label(<<"0","1">>)>>,
                  <<Label(<<"1">>), Label(<<"0">>), Label(<<"0">>)>>}}

NoArgs ==
    [mol_pbc |-> FALSE, orb2d |-> TRUE, s |-> "given", iaos |-> "given",
     locmethod |-> <<"I","B","O">>, exponent |-> 2, grad_tol |-> 0, max_iter |-> 0,
     iao_mol_given |-> FALSE, labels_given |-> FALSE, Atoms |-> <<>>,
     labels |-> <<>>, molSlices |-> <<>>, proj |-> <<>>]

-----------------------------------------------------------------------------
(* plot_wrapper.py: dictionaries are functions from keys to values; None and *)
(* a dictionary are told apart by a tag.                                    *)

PyNone == [none |-> TRUE, dict |-> <<>>]

PyDict(d) == [none |-> FALSE, dict |-> d]

\* the names bound at module level of plot_wrapper.py: `import functools` and
\* the def; `from matplotlib import rcParams` binds a local of the wrapper only
ModuleGlobals == {"functools", "plot_stixfont"}

\* dict.update(other)
update(d, other) ==
    [k \in DOMAIN d \cup DOMAIN other |-> IF k \in DOMAIN other THEN other[k] ELSE d[k]]

\* kwargs.pop(name, None): the value popped and the dictionary left
pop(kw, name) ==
    IF name \in DOMAIN kw
    THEN [popped |-> kw[name], left |-> [k \in DOMAIN kw \ {name} |-> kw[k]]]
    ELSE [popped |-> PyNone, left |-> kw]

\* lines 28-30: every key whose value differs from the copy gets the copy's
Restored(d, old) ==
    [k \in DOMAIN d |-> IF d[k] # old[k] THEN old[k] ELSE d[k]]

\* the settings the model lets a call see and write, with two values each
RcKeys == {"mathtext.fontset", "font.family", "font.size"}

RcValues(k) ==
    CASE k = "mathtext.fontset" -> {"dejavusans", "stix"}
      [] k = "font.family"      -> {"sans-serif", "STIXGeneral"}
      [] OTHER                  -> {"10.0", "12.0"}

RcDicts(keys) == {d \in [keys -> UNION {RcValues(k) : k \in RcKeys}] :
                     \A k \in keys : d[k] \in RcValues(k)}

\* dictionaries over some of the keys: what a caller passes as rcParams, and
\* what a plotting function assigns
PartialRcDicts == UNION {RcDicts(keys) : keys \in SUBSET RcKeys}

FuncWrites ==
    {d \in PartialRcDicts : DOMAIN d \subseteq {"font.family", "font.size"}
                            /\ ("font.family" \in DOMAIN d => d["font.family"] = "STIXGeneral")
                            /\ ("font.size" \in DOMAIN d => d["font.size"] = "12.0")}

-----------------------------------------------------------------------------
(* State *)

IdleIbo(e, a) ==
    /\ entry = e
    /\ args = a
    /\ pc = e
    /\ err = "none"
    /\ events = {}
    /\ s = a.s
    /\ iaos = a.iaos
    /\ locmethod = a.locmethod
    /\ AtomOffsets = <<>>
    /\ iAtSl = <<>>
    /\ CIb = <<>>
    /\ it = 0
    /\ i = 0
    /\ j = 0
    /\ fGrad = 0
    /\ L = 0
    /\ Converged = FALSE
    /\ bound = {}
    /\ visited = <<>>
    /\ norms = <<>>
    /\ result = "none"

\* no wrapped plotting function is in play
NoPlot ==
    /\ rcParams = <<>>
    /\ old_rcParams = <<>>
    /\ kwargs = <<>>
    /\ rcParamsInput = PyNone
    /\ value = "unset"
    /\ func = [writes |-> <<>>, raises |-> FALSE, returns |-> "none"]
    /\ funcCalls = <<>>
    /\ before = <<>>

Idle(e, a) == IdleIbo(e, a) /\ NoPlot

\* ibo(mol, orbocc, locmethod, iaos, s, exponent, grad_tol, max_iter): ibo passes
\* neither iao_mol nor labels on, so ibo_loc takes its slices from the atoms
InitIbo ==
    \E pbc \in BOOLEAN, o2 \in BOOLEAN, sv \in {"None", "given"},
       iv \in {"None", "given"}, lm \in LocMethods, p \in Exponents,
       mi \in {1, MaxIter},
       pr \in {<<<<SCALE, 0, 0>>, <<0, 0, SCALE>>>>,
               <<<<Half, Half, 0>>, <<Half, 0 - Half, 0>>>>} :
        Idle("ibo",
             [NoArgs EXCEPT !.mol_pbc = pbc, !.orb2d = o2, !.s = sv, !.iaos = iv,
                            !.locmethod = lm, !.exponent = p, !.grad_tol = 50,
                            !.max_iter = mi,
                            !.Atoms = <<<<"L","i">>, <<"H">>>>, !.proj = pr])

\* ibo_loc(mol, orbocc, iaos, s, exponent, grad_tol, max_iter, iao_mol, labels)
InitIboLoc ==
    \E p \in Exponents, gt \in GradTols, mi \in 0..MaxIter,
       sl \in SliceInputs, pr \in Projs :
        Idle("ibo_loc",
             [NoArgs EXCEPT !.exponent = p, !.grad_tol = gt, !.max_iter = mi,
                            !.iao_mol_given = sl.iao_mol_given,
                            !.labels_given = sl.labels_given,
                            !.Atoms = sl.Atoms, !.labels = sl.labels,
                            !.molSlices = sl.molSlices, !.proj = pr])

Init == InitIbo \/ InitIboLoc

Raise(e) ==
    /\ err' = e
    /\ pc' = "raised"

-----------------------------------------------------------------------------
(* ibo *)

\* a plausible slip: the shape of orbocc not looked at
AnyOrbocc(a) == TRUE

\* isinstance(orbocc, numpy.ndarray) and orbocc.ndim == 2
SingleArray(a) == a.orb2d

\* lines 65-72: the default overlap matrix
IboOverlap ==
    /\ pc = "ibo"
    /\ IF s = "None"
       THEN IF args.mol_pbc
            THEN IF SingleArray(args)
                 THEN /\ s' = "pbc_intor"
                      /\ events' = events \cup {"pbc_intor"}
                      /\ pc' = "ibo_iaos"
                      /\ err' = err
                 ELSE /\ Raise("NotImplementedError")
                      /\ UNCHANGED <<s, events>>
            ELSE /\ s' = "intor_symmetric"
                 /\ events' = events \cup {"intor_symmetric"}
                 /\ pc' = "ibo_iaos"
                 /\ err' = err
       ELSE /\ pc' = "ibo_iaos"
            /\ UNCHANGED <<s, events, err>>
    /\ UNCHANGED plotVars
    /\ UNCHANGED <<entry, args, iaos, locmethod, AtomOffsets, iAtSl, CIb, it, i, j,
                   fGrad, L, Converged, bound, visited, norms, result>>

\* lines 74-75: the default reference basis
IboIaos ==
    /\ pc = "ibo_iaos"
    /\ IF iaos = "None"
       THEN /\ iaos' = "iao.iao"
            /\ events' = events \cup {"iao.iao"}
       ELSE UNCHANGED <<iaos, events>>
    /\ pc' = "ibo_method"
    /\ UNCHANGED plotVars
    /\ UNCHANGED <<entry, args, err, s, locmethod, AtomOffsets, iAtSl, CIb, it, i, j,
                   fGrad, L, Converged, bound, visited, norms, result>>

\* lines 77-85: the method selector; the PM branch builds the Pipek-Mezey
\* object and returns it, every other selector calls ibo_loc
IboMethod ==
    /\ pc = "ibo_method"
    /\ locmethod' = upper(strip(locmethod))
    /\ IF locmethod' = <<"P", "M">>
       THEN /\ events' = events \cup {"PipekMezey"}
            /\ result' = "pm"
            /\ pc' = "returned"
       ELSE /\ pc' = "ibo_loc"
            /\ UNCHANGED <<events, result>>
    /\ UNCHANGED plotVars
    /\ UNCHANGED <<entry, args, err, s, iaos, AtomOffsets, iAtSl, CIb, it, i, j,
                   fGrad, L, Converged, bound, visited, norms>>

-----------------------------------------------------------------------------
(* ibo_loc *)

\* a plausible slip: the exponent only range-checked
ValidExponentRange(p) == 2 <= p /\ p <= 4

\* exponent in (2, 4)
ValidExponent(p) == p \in {2, 4}

\* lines 117-118
LocAssert ==
    /\ pc = "ibo_loc"
    /\ events' = events \cup {"new_logger"}
    /\ IF ValidExponent(args.exponent)
       THEN /\ pc' = "loc_setup"
            /\ err' = err
       ELSE Raise("AssertionError")
    /\ UNCHANGED plotVars
    /\ UNCHANGED <<entry, args, s, iaos, locmethod, AtomOffsets, iAtSl, CIb, it, i, j,
                   fGrad, L, Converged, bound, visited, norms, result>>

\* lines 134-155: the atom slices, by one of three paths
LocSlices ==
    IF ~args.iao_mol_given /\ ~args.labels_given
    THEN LET r == MakeAtomIbOffsets(args.Atoms)
         IN  [err |-> r.err, AtomOffsets |-> r.iBfAt,
              iAtSl |-> IF r.err = "none" THEN AtomSlices(r.iBfAt, Len(args.Atoms))
                        ELSE <<>>]
    ELSE IF ~args.labels_given
    THEN [err |-> "none", AtomOffsets |-> <<>>,
          iAtSl |-> [n \in DOMAIN args.molSlices |->
                        Slice(args.molSlices[n][1], args.molSlices[n][2])]]
    ELSE LET r == get_offset(args.labels)
         IN  [err |-> r.err, AtomOffsets |-> <<>>, iAtSl |-> r.offset]

\* lines 122-162: the reference basis is orthogonalized, the slices are built
\* and the occupied orbitals are projected.  For orbocc that is not one 2-D
\* array numpy's product is no nIAO x nOcc matrix and a later numpy call
\* rejects it; the sweep is modelled for 2-D input only.
LocSetup ==
    /\ pc = "loc_setup"
    /\ iaos' = "vec_lowdin"
    /\ LET sl == LocSlices
       IN  IF sl.err # "none"
           THEN /\ Raise(sl.err)
                /\ events' = events \cup {"vec_lowdin(iaos)"}
                /\ UNCHANGED <<AtomOffsets, iAtSl, CIb>>
           ELSE /\ AtomOffsets' = sl.AtomOffsets
                /\ iAtSl' = sl.iAtSl
                /\ events' = events \cup {"vec_lowdin(iaos)", "projection"}
                /\ IF args.orb2d
                   THEN /\ CIb' = args.proj
                        /\ pc' = "loop"
                        /\ err' = err
                   ELSE /\ CIb' = CIb
                        /\ \E e \in {"ValueError", "AttributeError"} : Raise(e)
    /\ UNCHANGED plotVars
    /\ UNCHANGED <<entry, args, s, locmethod, it, i, j, fGrad, L, Converged, bound,
                   visited, norms, result>>

numOccOrbitals == Len(CIb)

FloatSlice == \E A \in DOMAIN iAtSl : iAtSl[A][1].float \/ iAtSl[A][2].float

\* lines 164-173: the next value of it, fGrad reset, L recomputed; indexing
\* with a slice whose bound is a float raises TypeError
SweepBegin ==
    /\ pc = "loop"
    /\ LET nxt == IF "it" \in bound THEN it + 1 ELSE 0
       IN  /\ nxt < args.max_iter
           /\ it' = nxt
    /\ bound' = bound \cup {"it", "fGrad"}
    /\ fGrad' = 0
    /\ visited' = <<>>
    /\ IF FloatSlice /\ numOccOrbitals >= 1
       THEN /\ Raise("TypeError")
            /\ UNCHANGED <<L, i, j>>
       ELSE /\ L' = Localization(CIb, iAtSl, args.exponent)
            /\ LET first == NextPair(0, 0, numOccOrbitals)
               IN  /\ i' = first[1]
                   /\ j' = first[2]
                   /\ pc' = IF first[1] < numOccOrbitals THEN "pairs" ELSE "sweep_end"
            /\ err' = err
    /\ UNCHANGED plotVars
    /\ UNCHANGED <<entry, args, events, s, iaos, locmethod, AtomOffsets, iAtSl, CIb,
                   Converged, norms, result>>

\* line 164: range(max_iter) is exhausted
LoopExhausted ==
    /\ pc = "loop"
    /\ (IF "it" \in bound THEN it + 1 ELSE 0) >= args.max_iter
    /\ pc' = "after_loop"
    /\ UNCHANGED plotVars
    /\ UNCHANGED <<entry, args, err, events, s, iaos, locmethod, AtomOffsets, iAtSl,
                   CIb, it, i, j, fGrad, L, Converged, bound, visited, norms, result>>

\* lines 175-212: the pair (i, j)
PairStep ==
    /\ pc = "pairs"
    /\ \E ab \in {PairAB(CIb, iAtSl, args.exponent, i, j)} :
         LET skip == BelowSwapGradTolerance(ab.A * ab.A + ab.B * ab.B)
             nxt  == NextPair(i, j, numOccOrbitals)
         IN  /\ IF skip
                THEN UNCHANGED <<CIb, fGrad>>
                ELSE /\ fGrad' = fGrad + ab.B * ab.B
                     /\ \E r \in {CosSin(ab.A, ab.B)} :
                            CIb' = Rotate(CIb, i, j, r.cs, r.ss)
             /\ visited' = Append(visited, [i |-> i, j |-> j, Aij |-> ab.A,
                                            Bij |-> ab.B, rotated |-> ~skip])
             /\ i' = nxt[1]
             /\ j' = nxt[2]
             /\ pc' = IF nxt[1] < numOccOrbitals THEN "pairs" ELSE "sweep_end"
    /\ UNCHANGED plotVars
    /\ UNCHANGED <<entry, args, err, events, s, iaos, locmethod, AtomOffsets, iAtSl,
                   it, L, Converged, bound, norms, result>>

\* a plausible slip: a gradient equal to the tolerance taken as converged
GradientAtMost(g, tol) == g <= tol

\* line 217: fGrad < grad_tol
GradientBelow(g, tol) == g < tol

\* lines 213-219: fGrad holds the sum of Bij^2 in units of 1/SCALE^2 and is
\* replaced by its square root in units of 1/SCALE
SweepEnd ==
    /\ pc = "sweep_end"
    /\ fGrad' = Isqrt(fGrad)
    /\ norms' = Append(norms, fGrad')
    /\ events' = events \cup {"debug"}
    /\ IF GradientBelow(fGrad', args.grad_tol)
       THEN /\ Converged' = TRUE
            /\ pc' = "after_loop"
       ELSE /\ Converged' = Converged
            /\ pc' = "loop"
    /\ UNCHANGED plotVars
    /\ UNCHANGED <<entry, args, err, s, iaos, locmethod, AtomOffsets, iAtSl, CIb,
                   it, i, j, L, bound, visited, result>>

\* lines 221-236 (and line 86 of ibo): the note, the re-orthonormalization,
\* the reordering and the return.  Line 221 reads it and fGrad, which no
\* statement has assigned when the loop body never ran.
LocFinish ==
    /\ pc = "after_loop"
    /\ IF ~({"it", "fGrad"} \subseteq bound)
       THEN /\ Raise("UnboundLocalError")
            /\ UNCHANGED <<events, result>>
       ELSE /\ events' = events \cup {IF Converged THEN "note" ELSE "warning",
                                      "vec_lowdin(CIb)", "mo_1to1map"}
            /\ result' = "ibos"
            /\ pc' = "returned"
            /\ err' = err
    /\ UNCHANGED plotVars
    /\ UNCHANGED <<entry, args, s, iaos, locmethod, AtomOffsets, iAtSl, CIb, it, i, j,
                   fGrad, L, Converged, bound, visited, norms>>

-----------------------------------------------------------------------------
(* The two slice builders on their own, over every short input *)

InitOffsets ==
    \E a \in SeqsUpTo(RawSymbols, MaxAtoms) :
        Idle("MakeAtomIbOffsets", [NoArgs EXCEPT !.Atoms = a])

\* line 141: AtomOffsets = MakeAtomIbOffsets(Atoms)[0]
OffsetsCall ==
    /\ pc = "MakeAtomIbOffsets"
    /\ LET r == MakeAtomIbOffsets(args.Atoms)
       IN  IF r.err # "none"
           THEN /\ Raise(r.err)
                /\ UNCHANGED AtomOffsets
           ELSE /\ AtomOffsets' = r.iBfAt
                /\ pc' = "slices"
                /\ err' = err
    /\ UNCHANGED plotVars
    /\ UNCHANGED <<entry, args, events, s, iaos, locmethod, iAtSl, CIb, it, i, j,
                   fGrad, L, Converged, bound, visited, norms, result>>

\* lines 140-142
OffsetsSlices ==
    /\ pc = "slices"
    /\ iAtSl' = AtomSlices(AtomOffsets, Len(args.Atoms))
    /\ pc' = "returned"
    /\ UNCHANGED plotVars
    /\ UNCHANGED <<entry, args, err, events, s, iaos, locmethod, AtomOffsets, CIb,
                   it, i, j, fGrad, L, Converged, bound, visited, norms, result>>

NextOffsets == OffsetsCall \/ OffsetsSlices

SpecOffsets == InitOffsets /\ [][NextOffsets]_vars

InitLabels ==
    \E l \in SeqsUpTo({Label(id) : id \in IdTexts}, MaxLabels) :
        Idle("get_offset", [NoArgs EXCEPT !.labels_given = TRUE, !.labels = l])

\* line 154: iAtSl = get_offset(labels)
GetOffsetCall ==
    /\ pc = "get_offset"
    /\ LET r == get_offset(args.labels)
       IN  IF r.err # "none"
           THEN /\ Raise(r.err)
                /\ UNCHANGED iAtSl
           ELSE /\ iAtSl' = r.offset
                /\ pc' = "returned"
                /\ err' = err
    /\ UNCHANGED plotVars
    /\ UNCHANGED <<entry, args, events, s, iaos, locmethod, AtomOffsets, CIb, it, i, j,
                   fGrad, L, Converged, bound, visited, norms, result>>

NextLabels == GetOffsetCall

SpecLabels == InitLabels /\ [][NextLabels]_vars

-----------------------------------------------------------------------------
(* ibo and ibo_loc *)

Next ==
    \/ IboOverlap
    \/ IboIaos
    \/ IboMethod
    \/ LocAssert
    \/ LocSetup
    \/ SweepBegin
    \/ LoopExhausted
    \/ PairStep
    \/ SweepEnd
    \/ LocFinish

Spec == Init /\ [][Next]_vars

-----------------------------------------------------------------------------
(* plot_stixfont: one call of the wrapper around a plotting function *)

\* wrapper_decorator(*args, **kwargs): the call is made with a `color` keyword
\* or without, and with rcParams absent, None, or a dictionary
InitPlot ==
    /\ IdleIbo("plot_stixfont", NoArgs)
    /\ rcParams \in RcDicts(RcKeys)
    /\ before = rcParams
    /\ old_rcParams = <<>>
    /\ \E color \in BOOLEAN, given \in BOOLEAN,
          v \in {PyNone} \cup {PyDict(d) : d \in PartialRcDicts} :
          kwargs = [k \in (IF color THEN {"color"} ELSE {})
                          \cup (IF given THEN {"rcParams"} ELSE {}) |->
                      IF k = "color" THEN "k" ELSE v]
    /\ rcParamsInput = PyNone
    /\ value = "unset"
    /\ func \in [writes : FuncWrites, raises : BOOLEAN, returns : {"figure"}]
    /\ funcCalls = <<>>

\* lines 9-14: the copy, the pop, and the test of rcParamsInput
WrapperEnter ==
    /\ pc = "plot_stixfont"
    /\ old_rcParams' = rcParams
    /\ LET p == pop(kwargs, "rcParams")
       IN  /\ rcParamsInput' = p.popped
           /\ kwargs' = p.left
           /\ pc' = IF p.popped.none THEN "defaults" ELSE "update"
    /\ UNCHANGED <<rcParams, value, func, funcCalls, before>>
    /\ UNCHANGED <<entry, args, err, events, s, iaos, locmethod, AtomOffsets, iAtSl,
                   CIb, it, i, j, fGrad, L, Converged, bound, visited, norms, result>>

\* lines 16-17: the defaults are assigned through the name matplotlib, which
\* must be bound at module level; when it is not, line 16 raises NameError
WrapperDefaults ==
    /\ pc = "defaults"
    /\ IF "matplotlib" \in ModuleGlobals
       THEN /\ rcParams' = update(rcParams, [k \in {"mathtext.fontset", "font.family"} |->
                                 IF k = "mathtext.fontset" THEN "stix" ELSE "STIXGeneral"])
            /\ pc' = "func"
            /\ err' = err
       ELSE /\ Raise("NameError")
            /\ UNCHANGED rcParams
    /\ UNCHANGED <<old_rcParams, kwargs, rcParamsInput, value, func, funcCalls, before>>
    /\ UNCHANGED <<entry, args, events, s, iaos, locmethod, AtomOffsets, iAtSl,
                   CIb, it, i, j, fGrad, L, Converged, bound, visited, norms, result>>

\* line 23: rcParams.update(rcParamsInput)
WrapperUpdate ==
    /\ pc = "update"
    /\ rcParams' = update(rcParams, rcParamsInput.dict)
    /\ pc' = "func"
    /\ UNCHANGED <<old_rcParams, kwargs, rcParamsInput, value, func, funcCalls, before>>
    /\ UNCHANGED <<entry, args, err, events, s, iaos, locmethod, AtomOffsets, iAtSl,
                   CIb, it, i, j, fGrad, L, Converged, bound, visited, norms, result>>

\* line 25: value = func(*args, **kwargs); the function may assign settings,
\* and an exception it raises leaves the wrapper at once
WrapperCall ==
    /\ pc = "func"
    /\ funcCalls' = Append(funcCalls, kwargs)
    /\ rcParams' = update(rcParams, func.writes)
    /\ IF func.raises
       THEN /\ Raise("FuncError")
            /\ UNCHANGED value
       ELSE /\ value' = func.returns
            /\ pc' = "reset"
            /\ err' = err
    /\ UNCHANGED <<old_rcParams, kwargs, rcParamsInput, func, before>>
    /\ UNCHANGED <<entry, args, events, s, iaos, locmethod, AtomOffsets, iAtSl,
                   CIb, it, i, j, fGrad, L, Converged, bound, visited, norms, result>>

\* lines 28-32: the reset loop and the return
WrapperReset ==
    /\ pc = "reset"
    /\ rcParams' = Restored(rcParams, old_rcParams)
    /\ result' = value
    /\ pc' = "returned"
    /\ UNCHANGED <<old_rcParams, kwargs, rcParamsInput, value, func, funcCalls, before>>
    /\ UNCHANGED <<entry, args, err, events, s, iaos, locmethod, AtomOffsets, iAtSl,
                   CIb, it, i, j, fGrad, L, Converged, bound, visited, norms>>

NextPlot ==
    \/ WrapperEnter
    \/ WrapperDefaults
    \/ WrapperUpdate
    \/ WrapperCall
    \/ WrapperReset

SpecPlot == InitPlot /\ [][NextPlot]_vars

-----------------------------------------------------------------------------
(* Properties of the slice builders *)

AllKnown(atoms) ==
    \A n \in DOMAIN atoms : StripNonAlpha(atoms[n]) \in KnownAtoms

\* the per-element total orbital count of atom number n
OrbitalCount(atoms, n) == nAoX(StripNonAlpha(atoms[n])).v

RECURSIVE CountsUpTo(_, _)
CountsUpTo(atoms, n) ==
    IF n = 0 THEN 0 ELSE CountsUpTo(atoms, n - 1) + OrbitalCount(atoms, n)

\* slice(a, b) selects the indices a..b-1 only when both bounds are integers
IndexRange(sl) == ~sl[1].float /\ ~sl[2].float

\* how many of the slices hold index k
Holders(slices, k) ==
    Cardinality({A \in DOMAIN slices :
                    /\ IndexRange(slices[A])
                    /\ slices[A][1].v <= k
                    /\ k < slices[A][2].v})

\* C1: for an atom list whose stripped symbols are all in the table,
\* MakeAtomIbOffsets does not fail, its offsets start at 0 and are the
\* cumulative sums of the elements' orbital counts in atom order, and the
\* slices built from them are one per atom and partition [0, totalOrbitals):
\* every index below the total is selected by exactly one slice.
C1_OffsetsPartition ==
    (entry = "MakeAtomIbOffsets" /\ AllKnown(args.Atoms)) =>
        LET n     == Len(args.Atoms)
            total == CountsUpTo(args.Atoms, n)
        IN  /\ pc # "raised"
            /\ pc \in {"slices", "returned"} =>
                 /\ Len(AtomOffsets) = n + 1
                 /\ AtomOffsets[1].v = 0
                 /\ \A A \in 1..n : AtomOffsets[A + 1].v = CountsUpTo(args.Atoms, A)
            /\ pc = "returned" =>
                 /\ Len(iAtSl) = n
                 /\ \A A \in 1..n : iAtSl[A] = <<AtomOffsets[A], AtomOffsets[A + 1]>>
                 /\ \A k \in 0..(total - 1) : Holders(iAtSl, k) = 1

NonDecreasing(labs) ==
    \A n \in 2..Len(labs) : int(labs[n - 1][1]) <= int(labs[n][1])

\* the first positions of the maximal runs of equal atom index, ascending
RunStarts(labs) ==
    {n \in 1..Len(labs) : n = 1 \/ int(labs[n][1]) # int(labs[n - 1][1])}

RECURSIVE RunSlices(_, _, _)
RunSlices(starts, from, len) ==
    IF from > len THEN <<>>
    ELSE LET nxt == IF \E m \in starts : m > from
                    THEN CHOOSE m \in starts :
                            m > from /\ \A q \in starts : q > from => m <= q
                    ELSE len + 1
         IN  <<Slice(from - 1, nxt - 1)>> \o RunSlices(starts, nxt, len)

\* C2: for labels with non-decreasing atom indices get_offset returns one
\* slice per maximal run of equal atom index, in order, contiguous and ending at
\* len(labels); also for no labels and for one integer written in two ways.
C2_OneSlicePerRun ==
    (entry = "get_offset" /\ pc # "get_offset" /\ NonDecreasing(args.labels)) =>
        /\ err = "none"
        /\ iAtSl = RunSlices(RunStarts(args.labels), 1, Len(args.labels))

HasDecrease(labs) ==
    \E n \in 2..Len(labs) : int(labs[n][1]) < int(labs[n - 1][1])

\* C3: when some label's atom index is smaller than that of the label before
\* it, get_offset raises the unordered-labels ValueError and returns no slices.
C3_DecreaseRaises ==
    (entry = "get_offset" /\ pc # "get_offset" /\ HasDecrease(args.labels)) =>
        /\ pc = "raised"
        /\ err = "ValueError"
        /\ iAtSl = <<>>

\* the labels "0 H 1s", "1 H 1s", "0 H 1s" have been refused
C3_Witness ==
    /\ entry = "get_offset"
    /\ args.labels = <<Label(<<"0">>), Label(<<"1">>), Label(<<"0">>)>>
    /\ pc = "raised"
    /\ err = "ValueError"

-----------------------------------------------------------------------------
(* Properties of ibo and ibo_loc *)

Terminal == pc \in {"returned", "raised"}

\* the call runs the Jacobi localizer: ibo_loc itself, or ibo with a selector
\* that is not PM
JacobiCall ==
    \/ entry = "ibo_loc"
    \/ entry = "ibo" /\ upper(strip(args.locmethod)) # <<"P", "M">>

\* C4: a call of the Jacobi localizer with an exponent other than 2 or 4
\* fails with an error, and neither the projection CIb nor any sweep or
\* rotation happens before it does.
C4_BadExponentFailsFirst ==
    (JacobiCall /\ args.exponent \notin {2, 4}) =>
        /\ pc \in {"ibo", "ibo_iaos", "ibo_method", "ibo_loc", "raised"}
        /\ pc = "raised" => err \in {"AssertionError", "NotImplementedError"}
        /\ CIb = <<>>
        /\ "projection" \notin events
        /\ "it" \notin bound
        /\ visited = <<>>
        /\ norms = <<>>
        /\ result = "none"

\* ibo with the IBO method and exponent 3 has stopped at the assertion
C4_Witness ==
    /\ entry = "ibo"
    /\ upper(strip(args.locmethod)) = <<"I", "B", "O">>
    /\ args.exponent = 3
    /\ pc = "raised"
    /\ err = "AssertionError"

\* C5: for every max_iter >= 0, when the sweep loop ends with no sweep having
\* converged, ibo_loc does not raise: it logs the warning, re-orthonormalizes,
\* reorders and returns.
C5_NonConvergenceReturns ==
    [][(pc = "after_loop" /\ ~Converged) =>
           /\ pc' = "returned"
           /\ err' = "none"
           /\ result' = "ibos"
           /\ {"warning", "vec_lowdin(CIb)", "mo_1to1map"} \subseteq events']_vars

PeriodicMultiK == entry = "ibo" /\ args.mol_pbc /\ ~args.orb2d

NoLocalizationYet ==
    /\ events = {}
    /\ CIb = <<>>
    /\ result = "none"

\* C6 as stated: ibo on a periodic structure with orbocc that is not one 2-D
\* array fails with NotImplementedError before any localization work, whether
\* or not s and iaos are supplied.
C6_PeriodicAlwaysRejected ==
    PeriodicMultiK =>
        /\ pc = "ibo" \/ (pc = "raised" /\ err = "NotImplementedError")
        /\ NoLocalizationYet

\* C6 as amended: the same when the caller supplies no overlap matrix s,
\* whether or not iaos is supplied.
C6_PeriodicRejectedWithoutOverlap ==
    (PeriodicMultiK /\ args.s = "None") =>
        /\ pc = "ibo" \/ (pc = "raised" /\ err = "NotImplementedError")
        /\ NoLocalizationYet

\* the rejection, with iaos supplied
C6_Witness ==
    /\ PeriodicMultiK
    /\ args.s = "None"
    /\ args.iaos = "given"
    /\ pc = "raised"
    /\ err = "NotImplementedError"

\* the population of column c of matrix C on slice sl
Population(C, sl, c) == SliceDot(C, sl, c, c)

\* exactly two occupied orbitals, each with population 1 on an atom of its own
\* and population 0 on every other atom
LocalizedPairInput ==
    /\ Len(args.proj) = 2
    /\ iAtSl # <<>>
    /\ \E a, b \in DOMAIN iAtSl :
          /\ a # b
          /\ \A k \in DOMAIN iAtSl :
                /\ Population(args.proj, iAtSl[k], 0) = (IF k = a THEN SCALE ELSE 0)
                /\ Population(args.proj, iAtSl[k], 1) = (IF k = b THEN SCALE ELSE 0)

\* the first sweep has processed its pairs and no later sweep has begun
FirstSweepDone ==
    /\ "it" \in bound
    /\ it = 0
    /\ pc \in {"sweep_end", "loop", "after_loop", "returned"}

\* C7 as stated: such a pair has Aij^2 + Bij^2 < 1e-12 in the first sweep and
\* is skipped, and the sweep ends with gradient norm 0 and Converged set.
C7_LocalizedPairSkipped ==
    (LocalizedPairInput /\ FirstSweepDone) =>
        /\ Len(visited) = 1
        /\ BelowSwapGradTolerance(visited[1].Aij * visited[1].Aij
                                  + visited[1].Bij * visited[1].Bij)
        /\ ~visited[1].rotated
        /\ norms # <<>> => (norms[1] = 0 /\ Converged)

\* C7 as amended: such a pair has Bij = 0 and Aij = -2, so it is not skipped;
\* the rotation applied leaves CIb as it was, and the sweep ends with gradient
\* norm 0 and, for grad_tol > 0, with Converged set after that one sweep.
C7_LocalizedPairUnmoved ==
    (LocalizedPairInput /\ FirstSweepDone) =>
        /\ Len(visited) = 1
        /\ visited[1].Bij = 0
        /\ visited[1].Aij = 0 - 2 * SCALE
        /\ visited[1].rotated
        /\ CIb = args.proj
        /\ norms # <<>> =>
              /\ norms[1] = 0
              /\ args.grad_tol > 0 => (Converged /\ Len(norms) = 1)

C7_Witness ==
    /\ LocalizedPairInput
    /\ args.proj = <<<<0, 0, SCALE>>, <<P6, P8, 0>>>>
    /\ args.exponent = 4
    /\ pc = "returned"
    /\ Converged
    /\ visited[1].rotated

\* the place of pair (a, b), b < a, in the order a ascending, then b ascending
PairRank(a, b) == (a * (a - 1)) \div 2 + b + 1

VisitOrder ==
    /\ \A k \in DOMAIN visited :
          /\ 0 <= visited[k].j
          /\ visited[k].j < visited[k].i
          /\ visited[k].i < numOccOrbitals
          /\ PairRank(visited[k].i, visited[k].j) = k
    /\ pc = "pairs" => PairRank(i, j) = Len(visited) + 1
    /\ (pc = "sweep_end" /\ numOccOrbitals >= 1) =>
          Len(visited) = (numOccOrbitals * (numOccOrbitals - 1)) \div 2

FreshQuantities ==
    pc = "pairs" =>
        LET ab == PairAB(CIb, iAtSl, args.exponent, i, j)
            v  == visited'[Len(visited')]
        IN  /\ Len(visited') = Len(visited) + 1
            /\ v.i = i
            /\ v.j = j
            /\ v.Aij = ab.A
            /\ v.Bij = ab.B

\* C8: in every sweep the pairs visited are the pairs (i, j), 0 <= j < i < nOcc,
\* each once, i ascending and within i, j ascending; and Aij, Bij of a pair are
\* computed from CIb as the pairs before it in the sweep have left it.
C8_PairOrder == []VisitOrder /\ [][FreshQuantities]_vars

\* three orbitals, second pair of the first sweep: the first pair was rotated,
\* and the second pair's quantities differ from those of the projection
C8_Witness ==
    /\ numOccOrbitals = 3
    /\ it = 0
    /\ Len(visited) >= 2
    /\ visited[1].rotated
    /\ CIb # args.proj
    /\ <<visited[2].Aij, visited[2].Bij>> #
          <<PairAB(args.proj, iAtSl, args.exponent, 2, 0).A,
            PairAB(args.proj, iAtSl, args.exponent, 2, 0).B>>

RECURSIVE RotatedSquares(_, _)
RotatedSquares(vis, n) ==
    IF n = 0 THEN 0
    ELSE RotatedSquares(vis, n - 1)
         + (IF vis[n].rotated THEN vis[n].Bij * vis[n].Bij ELSE 0)

\* C9: the sweep loop runs at most max_iter sweeps and then ends; the gradient
\* accumulator restarts from zero in each sweep; the norm of a sweep is the
\* square root of the sum of Bij^2 over the pairs rotated in it; the loop stops
\* right after the first sweep whose norm is below grad_tol; and Converged is
\* true at the exit exactly when the loop stopped for that reason.
LoopInvariant ==
    /\ Len(norms) <= args.max_iter
    /\ "it" \in bound => (0 <= it /\ it < args.max_iter)
    /\ pc \in {"pairs", "sweep_end"} =>
          /\ Len(norms) = it
          /\ fGrad = RotatedSquares(visited, Len(visited))
    /\ (pc \in {"loop", "after_loop", "returned"} /\ norms # <<>>) =>
          /\ Len(norms) = it + 1
          /\ norms[Len(norms)] = Isqrt(RotatedSquares(visited, Len(visited)))
          /\ fGrad = norms[Len(norms)]
    /\ \A k \in 1..(Len(norms) - 1) : ~(norms[k] < args.grad_tol)
    /\ Converged <=> (norms # <<>> /\ norms[Len(norms)] < args.grad_tol)
    /\ Converged => pc \in {"after_loop", "returned"}
    /\ pc = "after_loop" => (Converged \/ Len(norms) = args.max_iter)

\* the steps a call may still take, at most: a sweep is its beginning, its
\* pairs and its end
PairsOf(n) == (n * (n - 1)) \div 2

SweepSteps == PairsOf(Len(args.proj)) + 2

SweepsBegun == IF "it" \in bound THEN it + 1 ELSE 0

StepsLeft ==
    CASE pc = "ibo"        -> args.max_iter * SweepSteps + 7
      [] pc = "ibo_iaos"   -> args.max_iter * SweepSteps + 6
      [] pc = "ibo_method" -> args.max_iter * SweepSteps + 5
      [] pc = "ibo_loc"    -> args.max_iter * SweepSteps + 4
      [] pc = "loc_setup"  -> args.max_iter * SweepSteps + 3
      [] pc = "loop"       -> (args.max_iter - SweepsBegun) * SweepSteps + 2
      [] pc = "pairs"      -> (args.max_iter - SweepsBegun) * SweepSteps + 3
                              + (PairsOf(numOccOrbitals) - Len(visited))
      [] pc = "sweep_end"  -> (args.max_iter - SweepsBegun) * SweepSteps + 3
      [] pc = "after_loop" -> 1
      [] OTHER             -> 0

C9_LoopTerminates ==
    /\ []LoopInvariant
    /\ [][StepsLeft' < StepsLeft /\ StepsLeft' >= 0]_vars

\* the loop left by convergence in sweep number max_iter, after sweeps that
\* did not converge
C9_Witness ==
    /\ pc = "after_loop"
    /\ Converged
    /\ Len(norms) = args.max_iter
    /\ Len(norms) >= 2
    /\ norms[1] > 0

PairFrame ==
    pc = "pairs" =>
        LET ab   == PairAB(CIb, iAtSl, args.exponent, i, j)
            skip == BelowSwapGradTolerance(ab.A * ab.A + ab.B * ab.B)
            r    == CosSin(ab.A, ab.B)
            Ci   == CIb[i + 1]
            Cj   == CIb[j + 1]
        IN  /\ Len(CIb') = Len(CIb)
            /\ \A c \in DOMAIN CIb : c \notin {i + 1, j + 1} => CIb'[c] = CIb[c]
            /\ skip => (CIb' = CIb /\ fGrad' = fGrad)
            /\ ~skip =>
                  /\ fGrad' = fGrad + ab.B * ab.B
                  /\ \A k \in DOMAIN Ci :
                        /\ CIb'[i + 1][k] = Rnd(r.cs * Ci[k] + r.ss * Cj[k], SCALE)
                        /\ CIb'[j + 1][k] = Rnd((0 - r.ss) * Ci[k] + r.cs * Cj[k], SCALE)

\* C10: processing a pair (i, j) changes at most columns i and j of CIb; a
\* skipped pair changes nothing of CIb and adds nothing to the accumulator; a
\* pair that is not skipped adds Bij^2 and both new columns are combinations of
\* the two columns as they were before the rotation.
C10_PairFrame == [][PairFrame]_vars

\* a sweep over three orbitals in which one pair was skipped and another was
\* rotated by a proper angle
C10_Witness ==
    /\ numOccOrbitals = 3
    /\ \E k \in DOMAIN visited : ~visited[k].rotated
    /\ \E k \in DOMAIN visited : visited[k].rotated /\ visited[k].Bij # 0
    /\ CIb # args.proj


-----------------------------------------------------------------------------
(* Property of the plotting wrapper *)

\* the call of the wrapper is over
PlotCallOver == entry = "plot_stixfont" /\ pc \in {"returned", "raised"}

\* C11: every call of a function wrapped by plot_stixfont, with or without an
\* rcParams keyword, of a function that itself returns normally: the wrapper
\* calls the function once with the keywords other than rcParams, returns the
\* function's value, and afterwards every key of rcParams has the value it
\* had before the call.
C11_WrapperRestores ==
    (PlotCallOver /\ ~func.raises) =>
        /\ pc = "returned"
        /\ funcCalls = <<pop(kwargs, "rcParams").left>>
        /\ result = func.returns
        /\ rcParams = before
=============================================================================
